---------------------------- MODULE Spec2Model ----------------------------
(***************************************************************************)
(* Ticket lifecycle and assignment policy of the Skanem helpdesk.          *)
(*                                                                         *)
(* Three families of route handlers are modelled, selected by `variant`:   *)
(*   "hp"   src/helpdesk-professional/app_demo_pro.py                      *)
(*   "pro1" src/app_demo_pro.py, first definitions  (lines 672-1170)       *)
(*   "pro2" src/app_demo_pro.py, second definitions (lines 1245-1743)      *)
(* The state is the content of the SQLite tables the handlers read and     *)
(* write, the wall clock, the HTTP response of the last request, and the  *)
(* requests in progress (`inflight`).  One action is one whole request     *)
(* handler, except under SpecConcurrent, where the submit_ticket requests  *)
(* run at the same time and one action is one step of a handler.  The      *)
(* clock advances under SpecClock and SpecConcurrent only.                 *)
(***************************************************************************)
EXTENDS Integers, Sequences, FiniteSets, TLC

VARIABLES variant, now, technicians, tickets, assignments, notifications,
          system_logs, resp, inflight

vars == <<variant, now, technicians, tickets, assignments, notifications,
          system_logs, resp, inflight>>

(***************************************************************************)
(* Bounds of the model.                                                    *)
(***************************************************************************)
MaxTickets == 1
MaxAssignments == 2
MaxResolved == 2
MaxInitWorkload == 3

(***************************************************************************)
(* Values.                                                                 *)
(***************************************************************************)
\* SQL NULL / Python None in an integer or timestamp column.
NULL == 0
\* Python None as a category.
NoCategory == "None"

Variants == {"hp", "pro1", "pro2"}

NumTechnicians == 3
TechIds == 1..NumTechnicians
\* The one seeded admin account and the submitting user.
AdminId == 1
UserId == 1

\* The labels the classifier was trained on (train_model_pro.py).
AllCategories == {"Hardware", "Software", "Network", "Database"}
\* The labels the classifier predicts in the lifecycle specification.
Categories == {"Hardware"}

\* CONFIDENCE_THRESHOLD = 0.60, a probability, held in units of 1/100000.
CONFIDENCE_THRESHOLD == 60000
\* Probabilities the classifier may report, in units of 1/100000:
\* 0.40, 0.59996 (which rounds to 60.00 %) and 0.60.
Probabilities == {40000, 59996, 60000}

ValidStatuses == {"Assigned", "In Progress", "Resolved"}
\* <<status, notes>> a client may send: each valid status, a resolution with
\* notes, and a status the handler does not accept.
StatusInputs ==
    {<<"Assigned", "">>, <<"In Progress", "">>, <<"Resolved", "">>,
     <<"Resolved", "fixed">>, <<"Closed", "">>}
\* <<subject, description>> a client may send.
TextInputs ==
    {<<"", "paper jam">>, <<" ", "paper jam">>, <<"printer jammed", "">>,
     <<"printer jammed", "paper jam">>}
\* str.strip() on those texts.
Strip(text) == IF text = " " THEN "" ELSE text
ReasonInputs == {"specialist needed"}

(***************************************************************************)
(* Text of the labels, lower-cased: SQLite's LIKE ignores ASCII case.      *)
(***************************************************************************)
Chars(label) ==
    CASE label = "Hardware" -> <<"h","a","r","d","w","a","r","e">>
      [] label = "Network"  -> <<"n","e","t","w","o","r","k">>
      [] label = "Software" -> <<"s","o","f","t","w","a","r","e">>
      [] label = "Database" -> <<"d","a","t","a","b","a","s","e">>
      [] label = "Net"      -> <<"n","e","t">>
      [] OTHER -> <<"?">>

\* The skills column: the labels joined by commas.
RECURSIVE SkillsText(_)
SkillsText(skills) ==
    IF skills = <<>> THEN <<>>
    ELSE IF Len(skills) = 1 THEN Chars(Head(skills))
    ELSE Chars(Head(skills)) \o <<",">> \o SkillsText(Tail(skills))

\* text LIKE '%pattern%'
Like(text, pattern) ==
    \E i \in 0..(Len(text) - Len(pattern)) :
        SubSeq(text, i + 1, i + Len(pattern)) = pattern

(***************************************************************************)
(* Seed data.                                                              *)
(***************************************************************************)
SeedSkills ==
    <<  <<"Hardware", "Network">>,
        <<"Software", "Database">>,
        <<"Hardware", "Software", "Network">>  >>

DefaultMaxWorkload == 10

SeedTechnicians ==
    [t \in TechIds |->
        [skills |-> SeedSkills[t],
         current_workload |-> 0,
         max_workload |-> DefaultMaxWorkload,
         availability_status |-> "Available",
         total_tickets_resolved |-> 0,
         is_active |-> TRUE]]

\* Rosters the technicians table may hold when the server starts: the seed,
\* and the seed with both Hardware technicians unavailable.
InitRosters ==
    { SeedTechnicians,
      [SeedTechnicians EXCEPT ![1].availability_status = "Unavailable",
                              ![3].availability_status = "Unavailable"] }

\* The requests being handled at the same time as others, with the position
\* and the local variables of each: none where one action is a whole handler.
NoRequests == <<>>

\* The HTTP response of the last request: the handler and the status code.
NoResp == [op |-> "none", code |-> NULL]

Response(op, code) == [op |-> op, code |-> code]

TicketExists(tid) == tid \in DOMAIN tickets

Init ==
    /\ variant \in Variants
    /\ now = 1
    /\ technicians \in InitRosters
    /\ tickets = <<>>
    /\ assignments = <<>>
    /\ notifications = <<>>
    /\ system_logs = {}
    /\ resp = NoResp
    /\ inflight = NoRequests

(***************************************************************************)
(* Helpers shared by the handlers.                                         *)
(***************************************************************************)
\* round(confidence * 100, 2), in hundredths of a percent (half to even).
ConfidencePct(p) ==
    LET q == p \div 10
        r == p % 10
    IN  IF r > 5 \/ (r = 5 /\ q % 2 = 1) THEN q + 1 ELSE q

\* A gate at half the threshold, to test that C4 depends on the gate.
NeedsManualReviewAtHalf(p) == p < CONFIDENCE_THRESHOLD \div 2

\* needs_manual_review = confidence < CONFIDENCE_THRESHOLD
NeedsManualReview(p) == p < CONFIDENCE_THRESHOLD

\* What a call of the classifier can do: the artifact was never loaded, the
\* prediction raises, or it predicts a label with a probability.
ClassifierOutcomes ==
    {[kind |-> k, category |-> NoCategory, p |-> 0] : k \in {"not_loaded", "raises"}}
        \cup {[kind |-> "predicts", category |-> c, p |-> p] :
                    c \in Categories, p \in Probabilities}

\* classify_ticket_with_confidence: <<category, confidence_pct, needs_manual_review>>
Classify(outcome) ==
    IF outcome.kind # "predicts"
    THEN <<NoCategory, 0, TRUE>>
    ELSE <<outcome.category, ConfidencePct(outcome.p), NeedsManualReview(outcome.p)>>

\* The row create_notification inserts.
Notification(user_type, user_id, ticket_id, notification_type) ==
    [user_type |-> user_type, user_id |-> user_id, ticket_id |-> ticket_id,
     notification_type |-> notification_type]

\* The row log_system_action inserts (system_logs holds the distinct
\* (log_type, status) pairs of the table).
LogEntry(log_type, status) == [log_type |-> log_type, status |-> status]

\* The row INSERT INTO assignments (ticket_id, technician_id, assigned_by) adds.
NewAssignment(ticket_id, technician_id, assigned_by) ==
    [ticket_id |-> ticket_id, technician_id |-> technician_id,
     assigned_by |-> assigned_by, assigned_at |-> now, completed_at |-> NULL,
     notes |-> "", resolution_notes |-> "", is_active |-> TRUE]

\* The row INSERT INTO tickets adds.
NewTicket(ticket_number, category, pct, flagged, status) ==
    [ticket_number |-> ticket_number, category |-> category,
     confidence_score |-> pct, flagged_for_manual_review |-> flagged,
     status |-> status, user_id |-> UserId,
     manual_assignment_reason |-> "",
     submitted_at |-> now, classified_at |-> now, assigned_at |-> NULL,
     in_progress_at |-> NULL, resolved_at |-> NULL, closed_at |-> NULL,
     updated_at |-> now]

\* WHERE availability_status = 'Available' AND skills LIKE '%category%'
\*   AND is_active = TRUE
Candidates(roster, category) ==
    {t \in TechIds :
        /\ roster[t].availability_status = "Available"
        /\ Like(SkillsText(roster[t].skills), Chars(category))
        /\ roster[t].is_active}

\* A query without ORDER BY, to test that C8 depends on the ordering.
AnyCandidate(roster, cands) == cands

\* ORDER BY current_workload ASC: the rows that can come first.
LeastLoaded(roster, cands) ==
    {t \in cands :
        \A u \in cands : roster[t].current_workload <= roster[u].current_workload}

\* ORDER BY current_workload ASC LIMIT 1 (the order among equal workloads is
\* left to SQLite): the rows fetchone() can return.
SelectTechnicianHP(roster, category) ==
    LeastLoaded(roster, Candidates(roster, category))

\* ORDER BY current_workload ASC, id ASC LIMIT 1
SelectTechnicianPro(roster, category) ==
    LET first == LeastLoaded(roster, Candidates(roster, category))
    IN  {t \in first : \A u \in first : t <= u}

SelectTechnician(roster, category) ==
    IF variant = "hp" THEN SelectTechnicianHP(roster, category)
    ELSE SelectTechnicianPro(roster, category)

\* UPDATE technicians SET current_workload = current_workload + 1 WHERE id = ?
IncrementWorkload(roster, tech) ==
    IF tech \in TechIds
    THEN [roster EXCEPT ![tech].current_workload = @ + 1]
    ELSE roster

\* UPDATE technicians SET total_tickets_resolved = total_tickets_resolved + 1,
\*   current_workload = current_workload - 1 WHERE id = ?
RecordResolution(roster, tech) ==
    IF tech \in TechIds
    THEN [roster EXCEPT ![tech].current_workload = @ - 1,
                        ![tech].total_tickets_resolved = @ + 1]
    ELSE roster

\* assign_ticket_to_technician's writes for the technician it selected.
AssignTo(tid, tech, tks) ==
    /\ assignments' = Append(assignments, NewAssignment(tid, tech, "System"))
    /\ tickets' = [tks EXCEPT ![tid].status = "Assigned",
                              ![tid].assigned_at = now]
    /\ technicians' = IncrementWorkload(technicians, tech)
    /\ notifications' = Append(notifications,
                               Notification("technician", tech, tid, "ticket_assigned"))

Rejected(op, code) ==
    /\ resp' = Response(op, code)
    /\ UNCHANGED <<inflight, variant, now, technicians, tickets, assignments,
                   notifications, system_logs>>


\* Accounts that may send a request: the user, the admin, each technician.
User == [role |-> "user", id |-> UserId]
Admin == [role |-> "admin", id |-> AdminId]
Technicians == {[role |-> "technician", id |-> t] : t \in TechIds}

\* Ticket ids a request may name: the possible rows, and one past them.
TicketIdInputs == 1..(MaxTickets + 1)

\* The requests the clients send.  A request a handler turns down at its
\* role check is sent once per handler: what else it carries is not read.
SubmitRequests ==
    {[caller |-> Admin, text |-> <<"printer jammed", "paper jam">>,
      outcome |-> o] : o \in {[kind |-> "raises", category |-> NoCategory, p |-> 0]}}
        \cup {[caller |-> User, text |-> t, outcome |-> o] :
                    t \in TextInputs, o \in ClassifierOutcomes}
UpdateRequests ==
    {[caller |-> Admin, tid |-> 1, input |-> <<"Resolved", "">>]}
        \cup {[caller |-> c, tid |-> t, input |-> i] :
                    c \in Technicians, t \in TicketIdInputs, i \in StatusInputs}
\* The technicians the admin picks in the assignment form: one with the
\* Hardware skill and one without.
AssignTargets == {1, 2}
AssignRequests ==
    {[caller |-> User, tid |-> 1, tech |-> 1, reason |-> r] : r \in ReasonInputs}
        \cup {[caller |-> Admin, tid |-> t, tech |-> x, reason |-> r] :
                    t \in TicketIdInputs, x \in AssignTargets, r \in ReasonInputs}
CloseRequests ==
    {[caller |-> c, tid |-> t] :
        c \in {User, Admin} \cup {[role |-> "technician", id |-> 1]},
        t \in TicketIdInputs}

\* The resolutions recorded so far, over all technicians.
RECURSIVE SumResolved(_, _)
SumResolved(roster, ids) ==
    IF ids = {} THEN 0
    ELSE LET t == CHOOSE x \in ids : TRUE
         IN  roster[t].total_tickets_resolved + SumResolved(roster, ids \ {t})

\* The active assignments of ticket tid held by technician uid (row indexes).
ActiveAssignments(tid, uid) ==
    {i \in DOMAIN assignments :
        /\ assignments[i].ticket_id = tid
        /\ assignments[i].technician_id = uid
        /\ assignments[i].is_active}

\* UPDATE assignments SET notes = ?, resolution_notes = ? on the rows `rows`.
WithNotes(asgs, rows, notes) ==
    [i \in DOMAIN asgs |->
        IF i \in rows
        THEN [asgs[i] EXCEPT !.notes = notes, !.resolution_notes = notes]
        ELSE asgs[i]]

\* UPDATE assignments SET completed_at = CURRENT_TIMESTAMP on the rows `rows`.
WithCompleted(asgs, rows) ==
    [i \in DOMAIN asgs |->
        IF i \in rows THEN [asgs[i] EXCEPT !.completed_at = now] ELSE asgs[i]]

(***************************************************************************)
(* src/helpdesk-professional/app_demo_pro.py                               *)
(***************************************************************************)
\* assign_ticket_to_technician(ticket_id, category) as called by submit_ticket,
\* and the response submit_ticket then sends.
\* `logs` is the audit log before the call, `assigned_logs` what the caller
\* logs when a technician comes back.
AutoAssign(tid, category, tks, code, logs, assigned_logs) ==
    LET sel == SelectTechnician(technicians, category)
    IN  IF sel = {}
        THEN /\ tickets' = tks
             /\ system_logs' = logs
             /\ resp' = Response("submit", code)
             /\ UNCHANGED <<technicians, assignments, notifications>>
        ELSE /\ Len(assignments) < MaxAssignments
             /\ \E tech \in sel : AssignTo(tid, tech, tks)
             /\ system_logs' = logs \cup assigned_logs
             /\ resp' = Response("submit", code)

SubmitTicketHP(caller, subject, description, outcome) ==
    /\ variant = "hp"
    /\ IF caller.role # "user"
       THEN Rejected("submit", 403)
       ELSE IF subject = "" \/ description = ""
       THEN Rejected("submit", 400)
       ELSE LET c == Classify(outcome)
                ticket_number == now
            IN  IF \E i \in DOMAIN tickets : tickets[i].ticket_number = ticket_number
                THEN \* UNIQUE(ticket_number) fails: rollback, 'Database error'
                     Rejected("submit", 500)
                ELSE /\ Len(tickets) < MaxTickets
                     /\ LET tid == Len(tickets) + 1
                            tks == Append(tickets,
                                     NewTicket(ticket_number, c[1], c[2], c[3], "Classified"))
                        IN  IF ~c[3] /\ c[1] # NoCategory
                            THEN AutoAssign(tid, c[1], tks, 201, system_logs, {})
                            ELSE /\ tickets' = tks
                                 /\ resp' = Response("submit", 201)
                                 /\ UNCHANGED <<technicians, assignments,
                                                notifications, system_logs>>
                     /\ UNCHANGED <<inflight, variant, now>>

UpdateTicketStatusHP(caller, tid, new_status, notes) ==
    /\ variant = "hp"
    /\ IF caller.role # "technician"
       THEN Rejected("update", 403)
       ELSE IF new_status \notin ValidStatuses
       THEN Rejected("update", 400)
       ELSE IF ActiveAssignments(tid, caller.id) = {}
       THEN Rejected("update", 403)
       ELSE LET mine == ActiveAssignments(tid, caller.id)
                noted == IF notes # "" THEN WithNotes(assignments, mine, notes)
                         ELSE assignments
                \* WHERE ticket_id = ? AND technician_id = ? (active or not)
                held == {i \in DOMAIN assignments :
                            /\ assignments[i].ticket_id = tid
                            /\ assignments[i].technician_id = caller.id}
            IN  /\ new_status = "Resolved" =>
                        SumResolved(technicians, TechIds) < MaxResolved
                /\ tickets' =
                     [tickets EXCEPT
                        ![tid].status = new_status,
                        ![tid].in_progress_at =
                            IF new_status = "In Progress" /\ @ = NULL THEN now ELSE @,
                        ![tid].resolved_at =
                            IF new_status = "Resolved" /\ @ = NULL THEN now ELSE @]
                /\ assignments' =
                     IF new_status = "Resolved" THEN WithCompleted(noted, held)
                     ELSE noted
                /\ technicians' =
                     IF new_status = "Resolved"
                     THEN RecordResolution(technicians, caller.id)
                     ELSE technicians
                /\ resp' = Response("update", 200)
                /\ UNCHANGED <<inflight, variant, now, notifications, system_logs>>

ManualAssignTicketHP(caller, tid, tech, reason) ==
    /\ variant = "hp"
    /\ IF caller.role # "admin"
       THEN Rejected("assign", 403)
       ELSE IF ~TicketExists(tid)
       THEN Rejected("assign", 404)
       ELSE /\ Len(assignments) < MaxAssignments
            /\ assignments' = Append(assignments, NewAssignment(tid, tech, "Admin"))
            /\ tickets' = [tickets EXCEPT
                             ![tid].status = "Assigned",
                             ![tid].assigned_at = now,
                             ![tid].flagged_for_manual_review = FALSE,
                             ![tid].manual_assignment_reason = reason]
            /\ technicians' = IncrementWorkload(technicians, tech)
            /\ notifications' = Append(notifications,
                                  Notification("technician", tech, tid, "ticket_assigned"))
            /\ resp' = Response("assign", 200)
            /\ UNCHANGED <<inflight, variant, now, system_logs>>

\* A check of the ticket's existence alone, to test that C5 depends on the
\* status check.
CanCloseAnyStatus(tid) == TicketExists(tid)

\* if not ticket or ticket['status'] != 'Resolved'
CanCloseHP(tid) == TicketExists(tid) /\ tickets[tid].status = "Resolved"

CloseTicketHP(caller, tid) ==
    /\ variant = "hp"
    /\ IF caller.role # "admin"
       THEN Rejected("close", 403)
       ELSE IF ~CanCloseHP(tid)
       THEN Rejected("close", 400)
       ELSE /\ tickets' = [tickets EXCEPT ![tid].status = "Closed",
                                          ![tid].closed_at = now]
            /\ resp' = Response("close", 200)
            /\ UNCHANGED <<inflight, variant, now, technicians, assignments,
                           notifications, system_logs>>

(***************************************************************************)
(* src/app_demo_pro.py, first definitions                                  *)
(***************************************************************************)
\* What classify_ticket_with_confidence writes to the audit log.
ClassifyLogs(outcome) ==
    IF outcome.kind = "raises"
    THEN {LogEntry("ticket_classification", "error")}
    ELSE IF outcome.kind = "predicts" /\ NeedsManualReview(outcome.p)
    THEN {LogEntry("ticket_classification", "warning")}
    ELSE {}

SubmitTicketPro1(caller, subject, description, outcome) ==
    /\ variant = "pro1"
    /\ IF caller.role # "user"
       THEN Rejected("submit", 403)
       ELSE IF Strip(subject) = "" \/ Strip(description) = ""
       THEN Rejected("submit", 400)
       ELSE LET c == Classify(outcome)
                classified == system_logs \cup ClassifyLogs(outcome)
                ticket_number == now
            IN  IF \E i \in DOMAIN tickets : tickets[i].ticket_number = ticket_number
                THEN \* UNIQUE(ticket_number) fails.  The handler's connection
                     \* still holds its write transaction, so the 'error' row
                     \* log_system_action inserts from the except block is
                     \* turned down by SQLite ("database is locked").
                     /\ system_logs' = classified
                     /\ resp' = Response("submit", 500)
                     /\ UNCHANGED <<inflight, variant, now, technicians, tickets,
                                    assignments, notifications>>
                ELSE /\ Len(tickets) < MaxTickets
                     /\ LET tid == Len(tickets) + 1
                            status == IF c[1] # NoCategory THEN "Classified"
                                      ELSE "Submitted"
                            tks == Append(tickets,
                                     NewTicket(ticket_number, c[1], c[2], c[3], status))
                            logs == classified
                                      \cup {LogEntry("ticket_submit", "success")}
                        IN  IF ~c[3] /\ c[1] # NoCategory
                            THEN AutoAssign(tid, c[1], tks, 200, logs,
                                            {LogEntry("ticket_assign", "success")})
                            ELSE /\ tickets' = tks
                                 /\ system_logs' =
                                      logs \cup {LogEntry("ticket_flagged", "warning")}
                                 /\ resp' = Response("submit", 200)
                                 /\ UNCHANGED <<technicians, assignments, notifications>>
                     /\ UNCHANGED <<inflight, variant, now>>

UpdateTicketStatusPro1(caller, tid, new_status, notes) ==
    /\ variant = "pro1"
    /\ IF caller.role # "technician"
       THEN Rejected("update", 403)
       ELSE IF new_status \notin ValidStatuses
       THEN Rejected("update", 400)
       ELSE LET mine == ActiveAssignments(tid, caller.id)
                noted == IF notes # "" THEN WithNotes(assignments, mine, notes)
                         ELSE assignments
            IN  \* UPDATE tickets ... WHERE id = ?: no row when the id is unknown
                /\ tickets' =
                     IF TicketExists(tid)
                     THEN [tickets EXCEPT
                             ![tid].status = new_status,
                             ![tid].updated_at = now,
                             ![tid].resolved_at =
                                 IF new_status = "Resolved" THEN now ELSE @]
                     ELSE tickets
                /\ assignments' =
                     IF new_status = "Resolved" THEN WithCompleted(noted, mine)
                     ELSE noted
                /\ system_logs' =
                     system_logs \cup {LogEntry("ticket_update", "success")}
                /\ resp' = Response("update", 200)
                /\ UNCHANGED <<inflight, variant, now, technicians, notifications>>

ManualAssignTicketPro1(caller, tid, tech, reason) ==
    /\ variant = "pro1"
    /\ IF caller.role # "admin"
       THEN Rejected("assign", 403)
       ELSE IF tech = NULL
       THEN Rejected("assign", 400)
       ELSE IF ~TicketExists(tid)
       THEN Rejected("assign", 404)
       ELSE IF tech \notin TechIds
       THEN Rejected("assign", 404)
       ELSE /\ Len(assignments) < MaxAssignments
            /\ assignments' = Append(assignments, NewAssignment(tid, tech, "Admin"))
            /\ tickets' = [tickets EXCEPT
                             ![tid].status = "Assigned",
                             ![tid].assigned_at = now,
                             ![tid].manual_assignment_reason = reason]
            /\ technicians' = IncrementWorkload(technicians, tech)
            /\ system_logs' =
                 system_logs \cup {LogEntry("manual_assignment", "success")}
            /\ notifications' = Append(notifications,
                                  Notification("technician", tech, tid, "manual_assignment"))
            /\ resp' = Response("assign", 200)
            /\ UNCHANGED <<inflight, variant, now>>

\* A SQLite whose grammar takes a table alias without AS in an UPDATE.
UpdateAliasAccepted == FALSE

\* "UPDATE technicians t SET ..." is not SQLite syntax (an alias needs AS):
\* cursor.execute raises sqlite3.OperationalError.
UpdateAliasIsSyntaxError == TRUE

\* SELECT technician_id FROM assignments WHERE ticket_id = ? AND
\*   is_active = TRUE, as a scalar subquery: the first row, or NULL.
AssignedTechnician(tid) ==
    LET rows == {i \in DOMAIN assignments :
                    assignments[i].ticket_id = tid /\ assignments[i].is_active}
    IN  IF rows = {} THEN NULL
        ELSE assignments[CHOOSE i \in rows : \A j \in rows : i <= j].technician_id

CloseTicketPro1(caller, tid) ==
    /\ variant = "pro1"
    /\ IF caller.role \notin {"admin", "technician"}
       THEN Rejected("close", 403)
       ELSE IF ~TicketExists(tid)
       THEN Rejected("close", 404)
       ELSE IF tickets[tid].status # "Resolved"
       THEN Rejected("close", 400)
       ELSE IF UpdateAliasIsSyntaxError
       THEN \* the statement raises, the pending UPDATE of the ticket is
            \* never committed, and the except block answers 500.
            Rejected("close", 500)
       ELSE /\ tickets' = [tickets EXCEPT ![tid].status = "Closed",
                                          ![tid].closed_at = now,
                                          ![tid].updated_at = now]
            /\ technicians' = RecordResolution(technicians, AssignedTechnician(tid))
            /\ system_logs' =
                 system_logs \cup {LogEntry("ticket_close", "success")}
            /\ resp' = Response("close", 200)
            /\ UNCHANGED <<inflight, variant, now, assignments, notifications>>

(***************************************************************************)
(* src/app_demo_pro.py, second definitions                                 *)
(***************************************************************************)
SubmitTicketPro2(caller, subject, description, outcome) ==
    /\ variant = "pro2"
    /\ IF caller.role # "user"
       THEN Rejected("submit", 403)
       ELSE IF Strip(subject) = "" \/ Strip(description) = ""
       THEN Rejected("submit", 400)
       ELSE LET c == Classify(outcome)
                \* TKT-{count + 1:04d}
                ticket_number == Len(tickets) + 1
                tid == Len(tickets) + 1
                tks == Append(tickets,
                         NewTicket(ticket_number, c[1], c[2], c[3], "Classified"))
                logs == system_logs \cup ClassifyLogs(outcome)
                          \cup {LogEntry("ticket_submit", "success")}
            IN  /\ Len(tickets) < MaxTickets
                /\ IF ~c[3] /\ c[1] # NoCategory
                   THEN AutoAssign(tid, c[1], tks, 200, logs, {})
                   ELSE \* one 'manual_review_required' notification per admin
                        /\ tickets' = tks
                        /\ system_logs' = logs
                        /\ notifications' =
                             Append(notifications,
                                    Notification("admin", AdminId, tid,
                                                 "manual_review_required"))
                        /\ resp' = Response("submit", 200)
                        /\ UNCHANGED <<technicians, assignments>>
                /\ UNCHANGED <<inflight, variant, now>>

UpdateTicketStatusPro2(caller, tid, new_status, notes) ==
    /\ variant = "pro2"
    /\ IF caller.role # "technician"
       THEN Rejected("update", 403)
       ELSE IF new_status \notin ValidStatuses
       THEN Rejected("update", 400)
       ELSE IF ~TicketExists(tid) \/ ActiveAssignments(tid, caller.id) = {}
       THEN Rejected("update", 404)
       ELSE \* fetchone() on the join: any one of the caller's active rows
            \E assignment_id \in ActiveAssignments(tid, caller.id) :
                LET noted == IF notes # ""
                             THEN WithNotes(assignments, {assignment_id}, notes)
                             ELSE assignments
                IN  /\ new_status = "Resolved" =>
                            SumResolved(technicians, TechIds) < MaxResolved
                    /\ tickets' = [tickets EXCEPT ![tid].status = new_status]
                    /\ assignments' =
                         IF new_status = "Resolved"
                         THEN WithCompleted(noted, {assignment_id})
                         ELSE noted
                    /\ technicians' =
                         IF new_status = "Resolved"
                         THEN RecordResolution(technicians, caller.id)
                         ELSE technicians
                    \* create_notification('user', ...) runs on a second
                    \* connection before the handler commits: SQLite turns
                    \* its INSERT down ("database is locked") and the
                    \* function swallows the error.
                    /\ system_logs' =
                         system_logs \cup {LogEntry("ticket_update", "success")}
                    /\ resp' = Response("update", 200)
                    /\ UNCHANGED <<inflight, variant, now, notifications>>

ManualAssignTicketPro2(caller, tid, tech, reason) ==
    /\ variant = "pro2"
    /\ IF caller.role # "admin"
       THEN Rejected("assign", 403)
       ELSE IF tid = NULL \/ tech = NULL
       THEN Rejected("assign", 400)
       ELSE IF ~TicketExists(tid)
       THEN Rejected("assign", 404)
       ELSE IF tech \notin TechIds \/ ~technicians[tech].is_active
       THEN Rejected("assign", 404)
       ELSE /\ Len(assignments) < MaxAssignments
            /\ assignments' = Append(assignments, NewAssignment(tid, tech, "Admin"))
            /\ tickets' = [tickets EXCEPT
                             ![tid].status = "Assigned",
                             ![tid].assigned_at = now,
                             ![tid].manual_assignment_reason = reason,
                             ![tid].flagged_for_manual_review = FALSE]
            /\ technicians' = IncrementWorkload(technicians, tech)
            /\ system_logs' =
                 system_logs \cup {LogEntry("manual_assignment", "success")}
            /\ notifications' = Append(notifications,
                                  Notification("technician", tech, tid, "ticket_assigned"))
            /\ resp' = Response("assign", 200)
            /\ UNCHANGED <<inflight, variant, now>>

CloseTicketPro2(caller, tid) ==
    /\ variant = "pro2"
    /\ IF caller.role # "admin"
       THEN Rejected("close", 403)
       ELSE IF ~TicketExists(tid)
       THEN Rejected("close", 404)
       ELSE IF tickets[tid].status # "Resolved"
       THEN Rejected("close", 400)
       ELSE /\ tickets' = [tickets EXCEPT ![tid].status = "Closed",
                                          ![tid].closed_at = now]
            /\ system_logs' =
                 system_logs \cup {LogEntry("ticket_close", "success")}
            /\ resp' = Response("close", 200)
            /\ UNCHANGED <<inflight, variant, now, technicians, assignments, notifications>>

Next ==
    \/ \E r \in SubmitRequests :
            \/ SubmitTicketHP(r.caller, r.text[1], r.text[2], r.outcome)
            \/ SubmitTicketPro1(r.caller, r.text[1], r.text[2], r.outcome)
            \/ SubmitTicketPro2(r.caller, r.text[1], r.text[2], r.outcome)
    \/ \E r \in UpdateRequests :
            \/ UpdateTicketStatusHP(r.caller, r.tid, r.input[1], r.input[2])
            \/ UpdateTicketStatusPro1(r.caller, r.tid, r.input[1], r.input[2])
            \/ UpdateTicketStatusPro2(r.caller, r.tid, r.input[1], r.input[2])
    \/ \E r \in AssignRequests :
            \/ ManualAssignTicketHP(r.caller, r.tid, r.tech, r.reason)
            \/ ManualAssignTicketPro1(r.caller, r.tid, r.tech, r.reason)
            \/ ManualAssignTicketPro2(r.caller, r.tid, r.tech, r.reason)
    \/ \E r \in CloseRequests :
            \/ CloseTicketHP(r.caller, r.tid)
            \/ CloseTicketPro1(r.caller, r.tid)
            \/ CloseTicketPro2(r.caller, r.tid)

Spec == Init /\ [][Next]_vars

(***************************************************************************)
(* Submission and the assignment policy on their own: submit requests      *)
(* over every roster of the three seeded technicians with workloads up to  *)
(* MaxInitWorkload, each technician available, unavailable or deactivated. *)
(***************************************************************************)
\* <<availability_status, is_active>> of a technician.
PolicyModes ==
    {<<"Available", TRUE>>, <<"Unavailable", TRUE>>, <<"Available", FALSE>>}

PolicyRosters ==
    {[t \in TechIds |->
        [SeedTechnicians[t] EXCEPT !.current_workload = w[t],
                                   !.availability_status = m[t][1],
                                   !.is_active = m[t][2]]] :
        w \in [TechIds -> 0..MaxInitWorkload],
        m \in [TechIds -> PolicyModes]}

\* The classifier fails, predicts any label at the threshold, or predicts
\* Hardware below it.
PolicyOutcomes ==
    {[kind |-> k, category |-> NoCategory, p |-> 0] : k \in {"not_loaded", "raises"}}
        \cup {[kind |-> "predicts", category |-> c, p |-> CONFIDENCE_THRESHOLD] :
                    c \in AllCategories}
        \cup {[kind |-> "predicts", category |-> "Hardware", p |-> p] :
                    p \in Probabilities}

PolicyRequests ==
    {[caller |-> User, text |-> <<"printer jammed", "paper jam">>, outcome |-> o] :
        o \in PolicyOutcomes}

InitPolicy ==
    /\ variant \in Variants
    /\ now = 1
    /\ technicians \in PolicyRosters
    /\ tickets = <<>>
    /\ assignments = <<>>
    /\ notifications = <<>>
    /\ system_logs = {}
    /\ resp = NoResp
    /\ inflight = NoRequests

NextPolicy ==
    \E r \in PolicyRequests :
        \/ SubmitTicketHP(r.caller, r.text[1], r.text[2], r.outcome)
        \/ SubmitTicketPro1(r.caller, r.text[1], r.text[2], r.outcome)
        \/ SubmitTicketPro2(r.caller, r.text[1], r.text[2], r.outcome)

SpecPolicy == InitPolicy /\ [][NextPolicy]_vars

(***************************************************************************)
(* Submission with a classifier whose label set is not the documented one: *)
(* the handlers pass whatever label the loaded artifact predicts to        *)
(* assign_ticket_to_technician without checking it against a list.         *)
(***************************************************************************)
\* A label of a retrained artifact that is no technician's skill.
OtherLabels == {"Net"}

LabelOutcomes ==
    {[kind |-> "predicts", category |-> c, p |-> CONFIDENCE_THRESHOLD] :
        c \in AllCategories \cup OtherLabels}

LabelRequests ==
    {[caller |-> User, text |-> <<"printer jammed", "paper jam">>, outcome |-> o] :
        o \in LabelOutcomes}

NextLabels ==
    \E r \in LabelRequests :
        \/ SubmitTicketHP(r.caller, r.text[1], r.text[2], r.outcome)
        \/ SubmitTicketPro1(r.caller, r.text[1], r.text[2], r.outcome)
        \/ SubmitTicketPro2(r.caller, r.text[1], r.text[2], r.outcome)

SpecLabels == InitPolicy /\ [][NextLabels]_vars

(***************************************************************************)
(* The lifecycle with a running clock: CURRENT_TIMESTAMP advances between   *)
(* the requests.  One ticket is followed from its submission on.            *)
(***************************************************************************)
MaxClock == 4

\* The wall clock reaches the next second.
Tick ==
    /\ now < MaxClock
    /\ now' = now + 1
    /\ UNCHANGED <<inflight, variant, technicians, tickets, assignments, notifications,
                   system_logs, resp>>

ClockSubmitRequests ==
    {[caller |-> User, text |-> <<"printer jammed", "paper jam">>, outcome |-> o] :
        o \in {[kind |-> "raises", category |-> NoCategory, p |-> 0],
               [kind |-> "predicts", category |-> "Hardware",
                p |-> CONFIDENCE_THRESHOLD]}}

ClockUpdateRequests ==
    {[caller |-> [role |-> "technician", id |-> 1], tid |-> 1, input |-> i] :
        i \in {<<"In Progress", "">>, <<"Resolved", "">>}}

\* A technician id no row of the technicians table has.
MissingTechnician == NumTechnicians + 1

ClockAssignRequests ==
    {[caller |-> Admin, tid |-> 1, tech |-> x, reason |-> r] :
        x \in {1, MissingTechnician}, r \in ReasonInputs}

ClockCloseRequests == {[caller |-> Admin, tid |-> 1]}

InitClock ==
    /\ variant \in Variants
    /\ now = 1
    /\ technicians = SeedTechnicians
    /\ tickets = <<>>
    /\ assignments = <<>>
    /\ notifications = <<>>
    /\ system_logs = {}
    /\ resp = NoResp
    /\ inflight = NoRequests

NextClock ==
    \/ Tick
    \/ \E r \in ClockSubmitRequests :
            \/ SubmitTicketHP(r.caller, r.text[1], r.text[2], r.outcome)
            \/ SubmitTicketPro1(r.caller, r.text[1], r.text[2], r.outcome)
            \/ SubmitTicketPro2(r.caller, r.text[1], r.text[2], r.outcome)
    \/ \E r \in ClockUpdateRequests :
            \/ UpdateTicketStatusHP(r.caller, r.tid, r.input[1], r.input[2])
            \/ UpdateTicketStatusPro1(r.caller, r.tid, r.input[1], r.input[2])
            \/ UpdateTicketStatusPro2(r.caller, r.tid, r.input[1], r.input[2])
    \/ \E r \in ClockAssignRequests :
            \/ ManualAssignTicketHP(r.caller, r.tid, r.tech, r.reason)
            \/ ManualAssignTicketPro1(r.caller, r.tid, r.tech, r.reason)
            \/ ManualAssignTicketPro2(r.caller, r.tid, r.tech, r.reason)
    \/ \E r \in ClockCloseRequests :
            \/ CloseTicketHP(r.caller, r.tid)
            \/ CloseTicketPro1(r.caller, r.tid)
            \/ CloseTicketPro2(r.caller, r.tid)

SpecClock == InitClock /\ [][NextClock]_vars

\* The same requests answered within one second of the clock.
NextSecond ==
    \/ \E r \in ClockSubmitRequests :
            \/ SubmitTicketHP(r.caller, r.text[1], r.text[2], r.outcome)
            \/ SubmitTicketPro1(r.caller, r.text[1], r.text[2], r.outcome)
            \/ SubmitTicketPro2(r.caller, r.text[1], r.text[2], r.outcome)
    \/ \E r \in ClockUpdateRequests :
            \/ UpdateTicketStatusHP(r.caller, r.tid, r.input[1], r.input[2])
            \/ UpdateTicketStatusPro1(r.caller, r.tid, r.input[1], r.input[2])
            \/ UpdateTicketStatusPro2(r.caller, r.tid, r.input[1], r.input[2])
    \/ \E r \in ClockAssignRequests :
            \/ ManualAssignTicketHP(r.caller, r.tid, r.tech, r.reason)
            \/ ManualAssignTicketPro1(r.caller, r.tid, r.tech, r.reason)
            \/ ManualAssignTicketPro2(r.caller, r.tid, r.tech, r.reason)
    \/ \E r \in ClockCloseRequests :
            \/ CloseTicketHP(r.caller, r.tid)
            \/ CloseTicketPro1(r.caller, r.tid)
            \/ CloseTicketPro2(r.caller, r.tid)

SpecSecond == InitClock /\ [][NextSecond]_vars

(***************************************************************************)
(* Persistence failures in src/helpdesk-professional/app_demo_pro.py: a     *)
(* statement of the assignment transaction raises (database locked, disk    *)
(* full, I/O error) after some of its writes and before conn.commit().      *)
(***************************************************************************)
\* The number of writes of the transaction that ran before the failure.
FailurePoints == 1..3

\* The tables the assignment transaction writes, as stored.
Stored ==
    [technicians |-> technicians, tickets |-> tickets, assignments |-> assignments]

\* What the connection sees after the first k writes of an assignment:
\* INSERT INTO assignments, UPDATE tickets, UPDATE technicians.
AssignmentWrites(d, k, tid, tech, assigned_by, reason) ==
    LET w1 == [d EXCEPT !.assignments =
                            Append(@, NewAssignment(tid, tech, assigned_by))]
        w2 == IF assigned_by = "Admin"
              THEN [w1 EXCEPT !.tickets[tid].status = "Assigned",
                              !.tickets[tid].assigned_at = now,
                              !.tickets[tid].flagged_for_manual_review = FALSE,
                              !.tickets[tid].manual_assignment_reason = reason]
              ELSE [w1 EXCEPT !.tickets[tid].status = "Assigned",
                              !.tickets[tid].assigned_at = now]
        w3 == [w2 EXCEPT !.technicians = IncrementWorkload(@, tech)]
    IN  IF k = 1 THEN w1 ELSE IF k = 2 THEN w2 ELSE w3

\* A connection in autocommit mode, to test that C20 depends on the
\* transaction.
AutoCommit(committed, pending) == pending

\* conn.rollback(), or the connection closed without commit: the database
\* keeps what was committed and drops the pending writes.
Rollback(committed, pending) == committed

\* submit_ticket when assign_ticket_to_technician raises after k writes: the
\* ticket row is already committed, the exception reaches submit_ticket's
\* except block.
SubmitTicketFailsHP(caller, subject, description, outcome, k) ==
    /\ variant = "hp"
    /\ caller.role = "user"
    /\ subject # "" /\ description # ""
    /\ LET c == Classify(outcome)
           ticket_number == now
           tid == Len(tickets) + 1
           tks == Append(tickets,
                         NewTicket(ticket_number, c[1], c[2], c[3], "Classified"))
           committed == [Stored EXCEPT !.tickets = tks]
       IN  /\ \A i \in DOMAIN tickets : tickets[i].ticket_number # ticket_number
           /\ Len(tickets) < MaxTickets
           /\ Len(assignments) < MaxAssignments
           /\ ~c[3] /\ c[1] # NoCategory
           /\ \E tech \in SelectTechnician(technicians, c[1]) :
                LET after == Rollback(committed,
                                      AssignmentWrites(committed, k, tid, tech,
                                                       "System", ""))
                IN  /\ technicians' = after.technicians
                    /\ tickets' = after.tickets
                    /\ assignments' = after.assignments
    /\ resp' = Response("submit", 500)
    /\ UNCHANGED <<inflight, variant, now, notifications, system_logs>>

\* manual_assign_ticket when a statement raises after k writes: the except
\* block rolls back and answers 500.
ManualAssignTicketFailsHP(caller, tid, tech, reason, k) ==
    /\ variant = "hp"
    /\ caller.role = "admin"
    /\ TicketExists(tid)
    /\ Len(assignments) < MaxAssignments
    /\ LET after == Rollback(Stored,
                             AssignmentWrites(Stored, k, tid, tech, "Admin", reason))
       IN  /\ technicians' = after.technicians
           /\ tickets' = after.tickets
           /\ assignments' = after.assignments
    /\ resp' = Response("assign", 500)
    /\ UNCHANGED <<inflight, variant, now, notifications, system_logs>>

\* What can fail while the technician is notified, after the commit: the
\* INSERT of create_notification, socketio.emit, or both.
NotifyFailures == {"insert", "push", "both"}

\* An exception that is passed on to the route handler's except block, to
\* test that C21 depends on the failure being swallowed.
Propagated(code) == 500

\* except: pass -- the handler goes on to the response it was about to send.
Swallowed(code) == code

\* The notifications table after create_notification, whose INSERT may fail.
NotifiedUnless(failure, tech, tid) ==
    IF failure \in {"insert", "both"} THEN notifications
    ELSE Append(notifications,
                Notification("technician", tech, tid, "ticket_assigned"))

\* submit_ticket when the notification of the automatic assignment fails.
SubmitTicketNotifyFailsHP(caller, subject, description, outcome, failure) ==
    /\ variant = "hp"
    /\ caller.role = "user"
    /\ subject # "" /\ description # ""
    /\ LET c == Classify(outcome)
           ticket_number == now
           tid == Len(tickets) + 1
           tks == Append(tickets,
                         NewTicket(ticket_number, c[1], c[2], c[3], "Classified"))
           committed == [Stored EXCEPT !.tickets = tks]
       IN  /\ \A i \in DOMAIN tickets : tickets[i].ticket_number # ticket_number
           /\ Len(tickets) < MaxTickets
           /\ Len(assignments) < MaxAssignments
           /\ ~c[3] /\ c[1] # NoCategory
           /\ \E tech \in SelectTechnician(technicians, c[1]) :
                LET after == AssignmentWrites(committed, 3, tid, tech, "System", "")
                IN  /\ technicians' = after.technicians
                    /\ tickets' = after.tickets
                    /\ assignments' = after.assignments
                    /\ notifications' = NotifiedUnless(failure, tech, tid)
    /\ resp' = Response("submit", Swallowed(201))
    /\ UNCHANGED <<inflight, variant, now, system_logs>>

\* manual_assign_ticket when the notification of the assignment fails.
ManualAssignTicketNotifyFailsHP(caller, tid, tech, reason, failure) ==
    /\ variant = "hp"
    /\ caller.role = "admin"
    /\ TicketExists(tid)
    /\ Len(assignments) < MaxAssignments
    /\ LET after == AssignmentWrites(Stored, 3, tid, tech, "Admin", reason)
       IN  /\ technicians' = after.technicians
           /\ tickets' = after.tickets
           /\ assignments' = after.assignments
    /\ notifications' = NotifiedUnless(failure, tech, tid)
    /\ resp' = Response("assign", Swallowed(200))
    /\ UNCHANGED <<inflight, variant, now, system_logs>>

InitFailure ==
    /\ variant = "hp"
    /\ now = 1
    /\ technicians \in InitRosters
    /\ tickets = <<>>
    /\ assignments = <<>>
    /\ notifications = <<>>
    /\ system_logs = {}
    /\ resp = NoResp
    /\ inflight = NoRequests

NextFailure ==
    \/ \E r \in ClockSubmitRequests :
            SubmitTicketHP(r.caller, r.text[1], r.text[2], r.outcome)
    \/ \E r \in ClockSubmitRequests, k \in FailurePoints :
            SubmitTicketFailsHP(r.caller, r.text[1], r.text[2], r.outcome, k)
    \/ \E r \in ClockUpdateRequests :
            UpdateTicketStatusHP(r.caller, r.tid, r.input[1], r.input[2])
    \/ \E r \in AssignRequests :
            ManualAssignTicketHP(r.caller, r.tid, r.tech, r.reason)
    \/ \E r \in AssignRequests, k \in FailurePoints :
            ManualAssignTicketFailsHP(r.caller, r.tid, r.tech, r.reason, k)
    \/ \E r \in ClockCloseRequests :
            CloseTicketHP(r.caller, r.tid)
    \/ \E r \in ClockSubmitRequests, f \in NotifyFailures :
            SubmitTicketNotifyFailsHP(r.caller, r.text[1], r.text[2], r.outcome, f)
    \/ \E r \in AssignRequests, f \in NotifyFailures :
            ManualAssignTicketNotifyFailsHP(r.caller, r.tid, r.tech, r.reason, f)

SpecFailure == InitFailure /\ [][NextFailure]_vars

(***************************************************************************)
(* src/app_demo.py: the demo server.  Its tables have fewer columns, every  *)
(* logged-in account may call both handlers, and init_db seeds three Open   *)
(* tickets.                                                                 *)
(***************************************************************************)
MaxDemoTickets == 4

DemoSeedTechnicians ==
    [t \in TechIds |->
        [skills |-> SeedSkills[t],
         current_workload |-> 0,
         availability_status |-> "Available"]]

DemoTicket(ticket_number, category, user_id) ==
    [ticket_number |-> ticket_number, category |-> category,
     status |-> "Open", user_id |-> user_id]

DemoSeedTickets ==
    <<DemoTicket(1, "Hardware", 1), DemoTicket(2, "Software", 2),
      DemoTicket(3, "Network", 3)>>

\* classify_ticket: the label, or "Software" when there is no classifier or
\* the prediction raises.
ClassifyDemo(outcome) ==
    IF outcome.kind = "predicts" THEN outcome.category ELSE "Software"

\* WHERE availability_status = 'Available' AND skills LIKE '%category%'
\* ORDER BY current_workload ASC, id ASC LIMIT 1
SelectTechnicianDemo(roster, category) ==
    LET cands == {t \in TechIds :
                    /\ roster[t].availability_status = "Available"
                    /\ Like(SkillsText(roster[t].skills), Chars(category))}
        first == LeastLoaded(roster, cands)
    IN  {t \in first : \A u \in first : t <= u}

DemoStatusInputs ==
    {<<"", "">>, <<"In Progress", "">>, <<"Resolved", "">>, <<"Resolved", "fixed">>,
     <<"Reopened", "">>}

DemoSubmitRequests ==
    {[caller |-> c, text |-> t, outcome |-> o] :
        c \in {User, [role |-> "technician", id |-> 2]},
        t \in {<<"", "paper jam">>, <<"printer jammed", "paper jam">>},
        o \in PolicyOutcomes}

DemoUpdateRequests ==
    {[caller |-> c, tid |-> t, input |-> i] :
        c \in {User, Admin} \cup Technicians,
        t \in {1, MaxDemoTickets, MaxDemoTickets + 1},
        i \in DemoStatusInputs}

InitDemo ==
    /\ variant = "demo"
    /\ now = 1
    /\ technicians = DemoSeedTechnicians
    /\ tickets = DemoSeedTickets
    /\ assignments = <<>>
    /\ notifications = <<>>
    /\ system_logs = {}
    /\ resp = NoResp
    /\ inflight = NoRequests

SubmitTicketDemo(caller, subject, description, outcome) ==
    /\ variant = "demo"
    /\ IF subject = "" \/ description = ""
       THEN Rejected("submit", 400)
       ELSE LET category == ClassifyDemo(outcome)
                \* TKT-{count + 1:04d}
                ticket_number == Len(tickets) + 1
                tid == Len(tickets) + 1
                tks == Append(tickets, DemoTicket(ticket_number, category, caller.id))
                sel == SelectTechnicianDemo(technicians, category)
            IN  /\ Len(tickets) < MaxDemoTickets
                /\ IF sel = {}
                   THEN /\ tickets' = tks
                        /\ UNCHANGED <<technicians, assignments>>
                   ELSE \E tech \in sel :
                        /\ assignments' =
                             Append(assignments,
                                    [ticket_id |-> tid, technician_id |-> tech,
                                     assigned_at |-> now, completed_at |-> NULL,
                                     notes |-> ""])
                        /\ tickets' = [tks EXCEPT ![tid].status = "Assigned"]
                        /\ technicians' = IncrementWorkload(technicians, tech)
                /\ resp' = Response("submit", 201)
                /\ UNCHANGED <<inflight, variant, now, notifications, system_logs>>

UpdateTicketStatusDemo(caller, tid, new_status, notes) ==
    /\ variant = "demo"
    /\ IF new_status = ""
       THEN Rejected("update", 400)
       ELSE LET rows == {i \in DOMAIN assignments : assignments[i].ticket_id = tid}
                noted == IF notes # ""
                         THEN [i \in DOMAIN assignments |->
                                 IF i \in rows
                                 THEN [assignments[i] EXCEPT !.notes = notes]
                                 ELSE assignments[i]]
                         ELSE assignments
            IN  /\ tickets' = IF TicketExists(tid)
                              THEN [tickets EXCEPT ![tid].status = new_status]
                              ELSE tickets
                /\ assignments' =
                     IF new_status = "Resolved" THEN WithCompleted(noted, rows)
                     ELSE noted
                \* SET current_workload = MAX(current_workload - 1, 0)
                \*   WHERE id = session['user_id']
                /\ technicians' =
                     IF new_status = "Resolved" /\ caller.id \in TechIds
                     THEN [technicians EXCEPT ![caller.id].current_workload =
                                                IF @ - 1 > 0 THEN @ - 1 ELSE 0]
                     ELSE technicians
                /\ resp' = Response("update", 200)
                /\ UNCHANGED <<inflight, variant, now, notifications, system_logs>>

NextDemo ==
    \/ \E r \in DemoSubmitRequests :
            SubmitTicketDemo(r.caller, r.text[1], r.text[2], r.outcome)
    \/ \E r \in DemoUpdateRequests :
            UpdateTicketStatusDemo(r.caller, r.tid, r.input[1], r.input[2])

SpecDemo == InitDemo /\ [][NextDemo]_vars

(***************************************************************************)
(* Technicians at their capacity: the technicians table after earlier       *)
(* assignments have brought each workload to max_workload or one below it.  *)
(***************************************************************************)
CapacityRosters ==
    {[t \in TechIds |-> [SeedTechnicians[t] EXCEPT !.current_workload = w[t]]] :
        w \in [TechIds -> {DefaultMaxWorkload - 1, DefaultMaxWorkload}]}

InitCapacity ==
    /\ variant \in Variants
    /\ now = 1
    /\ technicians \in CapacityRosters
    /\ tickets = <<>>
    /\ assignments = <<>>
    /\ notifications = <<>>
    /\ system_logs = {}
    /\ resp = NoResp
    /\ inflight = NoRequests

NextCapacity ==
    \/ \E r \in ClockSubmitRequests :
            \/ SubmitTicketHP(r.caller, r.text[1], r.text[2], r.outcome)
            \/ SubmitTicketPro1(r.caller, r.text[1], r.text[2], r.outcome)
            \/ SubmitTicketPro2(r.caller, r.text[1], r.text[2], r.outcome)
    \/ \E r \in ClockAssignRequests :
            \/ ManualAssignTicketHP(r.caller, r.tid, r.tech, r.reason)
            \/ ManualAssignTicketPro1(r.caller, r.tid, r.tech, r.reason)
            \/ ManualAssignTicketPro2(r.caller, r.tid, r.tech, r.reason)

SpecCapacity == InitCapacity /\ [][NextCapacity]_vars

(***************************************************************************)
(* Requests handled at the same time.  The server answers each request on   *)
(* its own thread and every handler opens its own SQLite connection, so the *)
(* statements of two submit_ticket calls interleave.  SQLite lets one       *)
(* connection write at a time: a statement that needs the write lock waits  *)
(* (sqlite3.connect's default timeout) until the writer has committed, and  *)
(* a SELECT of another connection sees the committed rows only.  Here one   *)
(* action is one step of a handler between two such points.                 *)
(***************************************************************************)
MaxRequests == 2

RequestIds == 1..MaxRequests

\* What the classifier answers to the submissions: a Hardware ticket, below
\* or at the confidence threshold.
ConcurrentOutcomes ==
    {[kind |-> "predicts", category |-> "Hardware", p |-> p] :
        p \in {40000, CONFIDENCE_THRESHOLD}}

\* A request that has not arrived yet.
Idle ==
    [pc |-> "idle", outcome |-> [kind |-> "not_loaded", category |-> NoCategory, p |-> 0],
     ticket_number |-> NULL, tid |-> NULL, tech |-> NULL, read |-> NULL]

\* No connection holds SQLite's write lock.
WriteLockFree == \A j \in RequestIds : inflight[j].pc # "writing"

\* An UPDATE that stores the workload the SELECT returned, plus one.
StaleWrite(current, read) == read + 1

\* SET current_workload = current_workload + 1, evaluated by the UPDATE.
WorkloadAfterAssign(current, read) == current + 1

\* The status code of a submit_ticket that went through.
SubmitOk == IF variant = "hp" THEN 201 ELSE 200

\* submit_ticket up to the ticket number: the wall clock (hp, pro1), or
\* SELECT COUNT(*) FROM tickets, plus one (pro2).  The requests are numbered
\* in the order they arrive; one arrives in the second of the request before
\* it (second = now) or in the next.
ReadTicketNumber(i, outcome, second) ==
    /\ inflight[i].pc = "idle"
    /\ \A j \in RequestIds : j < i => inflight[j].pc # "idle"
    /\ now' = second
    /\ inflight' = [inflight EXCEPT
                      ![i].pc = "numbered",
                      ![i].outcome = outcome,
                      ![i].ticket_number =
                          IF variant = "pro2" THEN Len(tickets) + 1 ELSE second]
    /\ UNCHANGED <<variant, technicians, tickets, assignments,
                   notifications, system_logs, resp>>

\* INSERT INTO tickets ... conn.commit(), and for a flagged ticket the rest
\* of the handler.
InsertTicket(i) ==
    /\ inflight[i].pc = "numbered"
    /\ WriteLockFree
    /\ LET r == inflight[i]
           c == Classify(r.outcome)
           tid == Len(tickets) + 1
           classified == IF variant = "hp" THEN system_logs
                         ELSE system_logs \cup ClassifyLogs(r.outcome)
       IN  IF \E k \in DOMAIN tickets : tickets[k].ticket_number = r.ticket_number
           THEN \* UNIQUE(ticket_number) fails: the submission is answered 500
                /\ inflight' = [inflight EXCEPT ![i].pc = "failed"]
                /\ system_logs' = classified
                /\ resp' = Response("submit", 500)
                /\ UNCHANGED <<tickets, notifications>>
           ELSE /\ tickets' = Append(tickets,
                                NewTicket(r.ticket_number, c[1], c[2], c[3], "Classified"))
                /\ IF c[3]
                   THEN /\ inflight' = [inflight EXCEPT ![i].pc = "done", ![i].tid = tid]
                        /\ system_logs' =
                             IF variant = "hp" THEN classified
                             ELSE IF variant = "pro1"
                             THEN classified \cup {LogEntry("ticket_submit", "success"),
                                                   LogEntry("ticket_flagged", "warning")}
                             ELSE classified \cup {LogEntry("ticket_submit", "success")}
                        /\ notifications' =
                             IF variant = "pro2"
                             THEN Append(notifications,
                                         Notification("admin", AdminId, tid,
                                                      "manual_review_required"))
                             ELSE notifications
                        /\ resp' = Response("submit", SubmitOk)
                   ELSE /\ inflight' = [inflight EXCEPT ![i].pc = "inserted", ![i].tid = tid]
                        /\ system_logs' =
                             IF variant = "hp" THEN classified
                             ELSE classified \cup {LogEntry("ticket_submit", "success")}
                        /\ UNCHANGED <<notifications, resp>>
    /\ UNCHANGED <<variant, now, technicians, assignments>>

\* assign_ticket_to_technician: the SELECT ... ORDER BY current_workload
\* LIMIT 1 and fetchone().
SelectCandidate(i) ==
    /\ inflight[i].pc = "inserted"
    /\ LET sel == SelectTechnician(technicians, inflight[i].outcome.category)
       IN  IF sel = {}
           THEN /\ inflight' = [inflight EXCEPT ![i].pc = "done"]
                /\ resp' = Response("submit", SubmitOk)
           ELSE /\ \E tech \in sel :
                      inflight' = [inflight EXCEPT
                                     ![i].pc = "selected",
                                     ![i].tech = tech,
                                     ![i].read = technicians[tech].current_workload]
                /\ UNCHANGED resp
    /\ UNCHANGED <<variant, now, technicians, tickets, assignments,
                   notifications, system_logs>>

\* INSERT INTO assignments: the connection takes the write lock.
BeginWrite(i) ==
    /\ inflight[i].pc = "selected"
    /\ WriteLockFree
    /\ inflight' = [inflight EXCEPT ![i].pc = "writing"]
    /\ UNCHANGED <<variant, now, technicians, tickets, assignments,
                   notifications, system_logs, resp>>

\* The three writes of the transaction become visible: conn.commit().
CommitAssignment(i) ==
    /\ inflight[i].pc = "writing"
    /\ LET r == inflight[i]
       IN  /\ assignments' = Append(assignments, NewAssignment(r.tid, r.tech, "System"))
           /\ tickets' = [tickets EXCEPT ![r.tid].status = "Assigned",
                                         ![r.tid].assigned_at = now]
           /\ technicians' =
                [technicians EXCEPT
                    ![r.tech].current_workload = WorkloadAfterAssign(@, r.read)]
    /\ inflight' = [inflight EXCEPT ![i].pc = "committed"]
    /\ UNCHANGED <<variant, now, notifications, system_logs, resp>>

\* create_notification on its own connection, then the caller's response.
NotifyAndRespond(i) ==
    /\ inflight[i].pc = "committed"
    /\ WriteLockFree
    /\ notifications' =
         Append(notifications,
                Notification("technician", inflight[i].tech, inflight[i].tid,
                             "ticket_assigned"))
    /\ system_logs' = IF variant = "pro1"
                      THEN system_logs \cup {LogEntry("ticket_assign", "success")}
                      ELSE system_logs
    /\ resp' = Response("submit", SubmitOk)
    /\ inflight' = [inflight EXCEPT ![i].pc = "done"]
    /\ UNCHANGED <<variant, now, technicians, tickets, assignments>>

InitConcurrent ==
    /\ variant \in Variants
    /\ now = 1
    /\ technicians \in InitRosters
    /\ tickets = <<>>
    /\ assignments = <<>>
    /\ notifications = <<>>
    /\ system_logs = {}
    /\ resp = NoResp
    /\ inflight = [i \in RequestIds |-> Idle]

NextConcurrent ==
    \/ \E i \in RequestIds, o \in ConcurrentOutcomes, second \in {now, now + 1} :
            ReadTicketNumber(i, o, second)
    \/ \E i \in RequestIds : InsertTicket(i)
    \/ \E i \in RequestIds : SelectCandidate(i)
    \/ \E i \in RequestIds : BeginWrite(i)
    \/ \E i \in RequestIds : CommitAssignment(i)
    \/ \E i \in RequestIds : NotifyAndRespond(i)

SpecConcurrent == InitConcurrent /\ [][NextConcurrent]_vars

(***************************************************************************)
(* Vocabulary of the properties.                                           *)
(***************************************************************************)
\* The tables of the database.
db == <<technicians, tickets, assignments, notifications, system_logs>>

\* Technician t can be given a ticket of the category: Available, active and
\* the category a member of the skill set.
Eligible(t, category) ==
    /\ technicians[t].availability_status = "Available"
    /\ technicians[t].is_active
    /\ \E k \in DOMAIN technicians[t].skills : technicians[t].skills[k] = category

\* The active assignments of a ticket (row indexes).
ActiveOf(tid) ==
    {i \in DOMAIN assignments :
        assignments[i].ticket_id = tid /\ assignments[i].is_active}

\* 60.0 % in the unit of confidence_score, hundredths of a percent.
ThresholdPct == CONFIDENCE_THRESHOLD \div 10

\* The lifecycle timestamps of a ticket row, in lifecycle order.
LifecycleTimestamps(t) ==
    <<t.submitted_at, t.classified_at, t.assigned_at, t.in_progress_at,
      t.resolved_at, t.closed_at>>

\* The status changes the lifecycle lets a technician make.
TechnicianTransitions ==
    {<<"Assigned", "In Progress">>, <<"In Progress", "Resolved">>}

(***************************************************************************)
(* Properties.                                                             *)
(***************************************************************************)
\* C1: in src/helpdesk-professional/app_demo_pro.py, after any sequence of
\* submit, manual-assign, update-status and close requests, each technician's
\* current_workload equals the number of active assignments to that
\* technician whose ticket is not Closed.
C1_WorkloadCountsOpenAssignments ==
    variant = "hp" =>
        \A t \in TechIds :
            technicians[t].current_workload =
                Cardinality({i \in DOMAIN assignments :
                                /\ assignments[i].technician_id = t
                                /\ assignments[i].is_active
                                /\ tickets[assignments[i].ticket_id].status # "Closed"})

\* C2: update_ticket_status (helpdesk-professional and the second definition
\* of src/app_demo_pro.py) changes a ticket's status only from Assigned to
\* In Progress or from In Progress to Resolved.
C2_OnlyLifecycleTransitions ==
    [][resp'.op = "update" =>
        \A r \in UpdateRequests :
            (/\ \/ UpdateTicketStatusHP(r.caller, r.tid, r.input[1], r.input[2])
                \/ UpdateTicketStatusPro2(r.caller, r.tid, r.input[1], r.input[2])
             /\ TicketExists(r.tid)
             /\ tickets'[r.tid].status # tickets[r.tid].status)
                => <<tickets[r.tid].status, tickets'[r.tid].status>>
                        \in TechnicianTransitions]_vars

\* C3: a Resolved request on a ticket that is already Resolved is rejected
\* and changes neither current_workload nor total_tickets_resolved, so that
\* resolving a ticket is counted exactly once.
C3_ResolvedCountedOnce ==
    [][resp'.op = "update" =>
        \A r \in UpdateRequests :
            (/\ \/ UpdateTicketStatusHP(r.caller, r.tid, r.input[1], r.input[2])
                \/ UpdateTicketStatusPro2(r.caller, r.tid, r.input[1], r.input[2])
             /\ TicketExists(r.tid)
             /\ tickets[r.tid].status = "Resolved"
             /\ r.input[1] = "Resolved")
                => resp'.code # 200 /\ technicians' = technicians]_vars

\* C4: submit_ticket (helpdesk-professional and the second definition of
\* src/app_demo_pro.py), when the classifier returns a confidence below
\* 60.0, stores the ticket Classified and flagged for manual review, creates
\* no assignment and changes no technician.
C4_LowConfidenceIsFlagged ==
    [][(/\ resp'.op = "submit"
        /\ variant \in {"hp", "pro2"}
        /\ Len(tickets') = Len(tickets) + 1
        /\ tickets'[Len(tickets')].confidence_score < ThresholdPct)
            => /\ tickets'[Len(tickets')].status = "Classified"
               /\ tickets'[Len(tickets')].flagged_for_manual_review
               /\ assignments' = assignments
               /\ technicians' = technicians]_vars

\* C4 witness: a Hardware ticket of confidence 40.00 % has been stored flagged
\* and unassigned although both Hardware technicians were available.
C4_Witness ==
    /\ variant \in {"hp", "pro2"}
    /\ resp.op = "submit" /\ resp.code \in {200, 201}
    /\ technicians = SeedTechnicians
    /\ Len(tickets) = 1
    /\ tickets[1].category = "Hardware"
    /\ tickets[1].confidence_score = 4000
    /\ tickets[1].status = "Classified"
    /\ tickets[1].flagged_for_manual_review
    /\ assignments = <<>>

\* C5: close_ticket (helpdesk-professional and the second definition of
\* src/app_demo_pro.py) on a ticket that does not exist or is not exactly
\* Resolved answers an error and changes nothing; an admin's close of a
\* Resolved ticket sets status Closed and closed_at.
C5_CloseOnlyResolved ==
    [][resp'.op = "close" =>
        \A r \in CloseRequests :
            (\/ CloseTicketHP(r.caller, r.tid)
             \/ CloseTicketPro2(r.caller, r.tid))
                => IF TicketExists(r.tid) /\ tickets[r.tid].status = "Resolved"
                   THEN r.caller.role = "admin" =>
                            /\ resp'.code = 200
                            /\ tickets'[r.tid].status = "Closed"
                            /\ tickets'[r.tid].closed_at # NULL
                   ELSE resp'.code >= 400 /\ db' = db]_vars

\* C5 witness: the close of a ticket that is In Progress has been answered
\* 400 and the ticket is still In Progress and not closed.
C5_Witness ==
    /\ variant \in {"hp", "pro2"}
    /\ resp = Response("close", 400)
    /\ Len(tickets) = 1
    /\ tickets[1].status = "In Progress"
    /\ tickets[1].closed_at = NULL

\* C6: a ticket has at most one active assignment at any time.
C6_OneActiveAssignmentPerTicket ==
    \A tid \in DOMAIN tickets : Cardinality(ActiveOf(tid)) <= 1

\* C7: in src/helpdesk-professional/app_demo_pro.py a submitted ticket whose
\* confidence is at least 60.0 and for whose category no technician is a
\* candidate is stored Classified with flagged_for_manual_review = true.
C7_UnassignableTicketIsFlagged ==
    [][(/\ resp'.op = "submit"
        /\ variant = "hp"
        /\ Len(tickets') = Len(tickets) + 1
        /\ tickets'[Len(tickets')].confidence_score >= ThresholdPct
        /\ \A t \in TechIds : ~Eligible(t, tickets'[Len(tickets')].category))
            => /\ tickets'[Len(tickets')].status = "Classified"
               /\ tickets'[Len(tickets')].flagged_for_manual_review]_vars

\* C8: assign_ticket_to_technician selects a candidate (Available, active,
\* skill matches the category) whose current_workload at the time of the call
\* is minimal among all candidates.
C8_SelectsLeastLoaded ==
    [][(resp'.op = "submit" /\ Len(assignments') = Len(assignments) + 1)
        => LET a == assignments'[Len(assignments')]
               c == tickets'[a.ticket_id].category
           IN  /\ Eligible(a.technician_id, c)
               /\ \A u \in TechIds :
                    Eligible(u, c) =>
                        technicians[a.technician_id].current_workload
                            <= technicians[u].current_workload]_vars

\* C8 witness: with both Hardware technicians candidates, technician 3 at
\* workload 2 and technician 1 at workload 3, the ticket went to technician 3
\* (whose workload is now 3).
C8_Witness ==
    /\ Len(assignments) = 1
    /\ assignments[1].assigned_by = "System"
    /\ tickets[1].category = "Hardware"
    /\ Eligible(1, "Hardware") /\ Eligible(3, "Hardware")
    /\ assignments[1].technician_id = 3
    /\ technicians[3].current_workload = 2 + 1
    /\ technicians[1].current_workload = 3

\* C9: in src/helpdesk-professional/app_demo_pro.py, when a ticket is stored
\* with a confidence of at least 60.0 and a candidate technician exists, then
\* on return the ticket has exactly one assignment (by System, active), its
\* status is Assigned with assigned_at set, the selected technician's
\* current_workload is one greater than before and no other technician's
\* current_workload has changed.
C9_ConfidentTicketIsAssigned ==
    [][(/\ resp'.op = "submit"
        /\ variant = "hp"
        /\ Len(tickets') = Len(tickets) + 1
        /\ tickets'[Len(tickets')].confidence_score >= ThresholdPct
        /\ \E t \in TechIds : Eligible(t, tickets'[Len(tickets')].category))
            => LET tid == Len(tickets')
                   rows == {i \in DOMAIN assignments' : assignments'[i].ticket_id = tid}
               IN  /\ Cardinality(rows) = 1
                   /\ \A i \in rows :
                        /\ assignments'[i].assigned_by = "System"
                        /\ assignments'[i].is_active
                        /\ \A t \in TechIds :
                             technicians'[t].current_workload =
                                technicians[t].current_workload
                                    + (IF t = assignments'[i].technician_id THEN 1 ELSE 0)
                   /\ tickets'[tid].status = "Assigned"
                   /\ tickets'[tid].assigned_at # NULL]_vars

\* C10: in every manual-assign handler, when the admin assigns a flagged
\* ticket in status Classified to an active technician X, the ticket becomes
\* Assigned, flagged_for_manual_review becomes false, the reason is recorded,
\* an assignment by Admin to X is created, X's current_workload grows by one
\* and a notification for X is created.
C10_ManualAssignOfFlaggedTicket ==
    [][resp'.op = "assign" =>
        \A r \in AssignRequests :
            (/\ \/ ManualAssignTicketHP(r.caller, r.tid, r.tech, r.reason)
                \/ ManualAssignTicketPro1(r.caller, r.tid, r.tech, r.reason)
                \/ ManualAssignTicketPro2(r.caller, r.tid, r.tech, r.reason)
             /\ r.caller.role = "admin"
             /\ TicketExists(r.tid)
             /\ tickets[r.tid].status = "Classified"
             /\ tickets[r.tid].flagged_for_manual_review
             /\ r.tech \in TechIds
             /\ technicians[r.tech].is_active)
                => /\ tickets'[r.tid].status = "Assigned"
                   /\ ~tickets'[r.tid].flagged_for_manual_review
                   /\ tickets'[r.tid].manual_assignment_reason = r.reason
                   /\ Len(assignments') = Len(assignments) + 1
                   /\ assignments'[Len(assignments')].ticket_id = r.tid
                   /\ assignments'[Len(assignments')].technician_id = r.tech
                   /\ assignments'[Len(assignments')].assigned_by = "Admin"
                   /\ technicians'[r.tech].current_workload =
                        technicians[r.tech].current_workload + 1
                   /\ Len(notifications') = Len(notifications) + 1
                   /\ notifications'[Len(notifications')].user_type = "technician"
                   /\ notifications'[Len(notifications')].user_id = r.tech
                   /\ notifications'[Len(notifications')].ticket_id = r.tid]_vars

\* C11: automatic assignment gives a ticket only to a technician who is
\* Available, active and has the ticket's category as an element of the skill
\* list, whatever label the classifier predicts; when no technician is such,
\* no assignment is created.
C11_AssignsOnlyEligible ==
    [][(resp'.op = "submit" /\ Len(tickets') = Len(tickets) + 1)
        => LET c == tickets'[Len(tickets')].category
           IN  /\ \A i \in DOMAIN assignments' \ DOMAIN assignments :
                    Eligible(assignments'[i].technician_id, c)
               /\ (\A t \in TechIds : ~Eligible(t, c))
                    => assignments' = assignments]_vars

\* C12: among the candidates with the same current_workload as the selected
\* technician, automatic assignment selects the one with the smallest id, so
\* that the selection is a function of the roster and the category.
C12_TieGoesToSmallestId ==
    [][(resp'.op = "submit" /\ Len(assignments') = Len(assignments) + 1)
        => LET a == assignments'[Len(assignments')]
               c == tickets'[a.ticket_id].category
           IN  \A u \in TechIds :
                    (/\ Eligible(u, c)
                     /\ technicians[u].current_workload =
                            technicians[a.technician_id].current_workload)
                        => a.technician_id <= u]_vars

\* C13: the triple classify_ticket_with_confidence returns, as submit_ticket
\* stores it, has needs_manual_review true exactly when the returned
\* confidence is below 60.0 or the category is null.
C13_ReviewIffBelowThreshold ==
    [][(resp'.op = "submit" /\ Len(tickets') = Len(tickets) + 1)
        => LET t == tickets'[Len(tickets')]
           IN  t.flagged_for_manual_review
                    <=> (t.confidence_score < ThresholdPct \/ t.category = NoCategory)]_vars

\* C14: in the professional variants, when the classifier artifact is not
\* loaded or the prediction raises, submit_ticket still stores the ticket:
\* category null, confidence 0.0, status Classified, flagged for manual
\* review, with no assignment and no change of any technician.
C14_ClassifierFailureStillSubmits ==
    [][resp'.op = "submit" =>
        \A r \in PolicyRequests :
            (/\ r.outcome.kind # "predicts"
             /\ tickets = <<>>
             /\ \/ SubmitTicketHP(r.caller, r.text[1], r.text[2], r.outcome)
                \/ SubmitTicketPro1(r.caller, r.text[1], r.text[2], r.outcome)
                \/ SubmitTicketPro2(r.caller, r.text[1], r.text[2], r.outcome))
                => /\ resp'.code \in {200, 201}
                   /\ Len(tickets') = 1
                   /\ tickets'[1].category = NoCategory
                   /\ tickets'[1].confidence_score = 0
                   /\ tickets'[1].status = "Classified"
                   /\ tickets'[1].flagged_for_manual_review
                   /\ assignments' = assignments
                   /\ technicians' = technicians]_vars

\* C15: in the demo variant, when the classifier is unavailable or raises, the
\* submission guesses no category and assigns the ticket to no technician.
C15_DemoFailsSafe ==
    [][resp'.op = "submit" =>
        \A r \in DemoSubmitRequests :
            (/\ r.outcome.kind # "predicts"
             /\ SubmitTicketDemo(r.caller, r.text[1], r.text[2], r.outcome)
             /\ Len(tickets') = Len(tickets) + 1)
                => /\ tickets'[Len(tickets')].category \notin AllCategories
                   /\ assignments' = assignments
                   /\ technicians' = technicians]_vars

\* C16: update_ticket_status called for an existing ticket by an account that
\* is not a technician holding an active assignment of that ticket is
\* rejected and changes no ticket, no assignment and no technician.
C16_OnlyAssignedTechnicianUpdates ==
    [][resp'.op = "update" =>
        \A r \in UpdateRequests :
            (/\ \/ UpdateTicketStatusHP(r.caller, r.tid, r.input[1], r.input[2])
                \/ UpdateTicketStatusPro1(r.caller, r.tid, r.input[1], r.input[2])
                \/ UpdateTicketStatusPro2(r.caller, r.tid, r.input[1], r.input[2])
             /\ TicketExists(r.tid)
             /\ ~(/\ r.caller.role = "technician"
                  /\ ActiveAssignments(r.tid, r.caller.id) # {}))
                => /\ resp'.code >= 400
                   /\ tickets' = tickets
                   /\ assignments' = assignments
                   /\ technicians' = technicians]_vars

\* C17: in src/helpdesk-professional/app_demo_pro.py, once a ticket's status
\* is Closed no request (update-status, manual-assign, close, submit) changes
\* its status again.
C17_ClosedIsTerminal ==
    [][variant = "hp" =>
        \A tid \in DOMAIN tickets :
            tickets[tid].status = "Closed" => tickets'[tid].status = "Closed"]_vars

\* C18: after every request, the lifecycle timestamps of a ticket that are
\* set are non-decreasing in the order submitted, classified, assigned,
\* in_progress, resolved, closed, and a timestamp that was set keeps its
\* value.
C18_TimestampsOrderedAndSetOnce ==
    [][\A tid \in DOMAIN tickets' :
        LET new == LifecycleTimestamps(tickets'[tid])
        IN  /\ \A i, j \in DOMAIN new :
                    (i < j /\ new[i] # NULL /\ new[j] # NULL) => new[i] <= new[j]
            /\ tid \in DOMAIN tickets =>
                    LET old == LifecycleTimestamps(tickets[tid])
                    IN  \A i \in DOMAIN old : old[i] # NULL => new[i] = old[i]]_vars

\* C19: no technician's current_workload is negative in any reachable state.
C19_WorkloadNeverNegative ==
    \A t \in TechIds : technicians[t].current_workload >= 0

\* C20: in src/helpdesk-professional/app_demo_pro.py every submit or
\* manual-assign request, failed or not, either stores the new assignment,
\* the ticket's status Assigned and the technician's workload increment
\* together, or stores none of the three.
C20_AssignmentWritesAtomic ==
    [][(variant = "hp" /\ resp'.op \in {"submit", "assign"})
        => \/ /\ assignments' = assignments
              /\ technicians' = technicians
              /\ \A tid \in DOMAIN tickets : tickets'[tid] = tickets[tid]
              /\ \A tid \in DOMAIN tickets' \ DOMAIN tickets :
                    tickets'[tid].status # "Assigned"
           \/ /\ Len(assignments') = Len(assignments) + 1
              /\ LET a == assignments'[Len(assignments')]
                 IN  /\ tickets'[a.ticket_id].status = "Assigned"
                     /\ technicians' = IncrementWorkload(technicians, a.technician_id)
                     /\ technicians' # technicians]_vars

\* C20 witness: a manual assignment of the flagged, unassigned ticket failed
\* before its commit (500) and the ticket is still Classified and flagged,
\* with no assignment and no workload counted.
C20_Witness ==
    /\ variant = "hp"
    /\ resp = Response("assign", 500)
    /\ Len(tickets) = 1
    /\ tickets[1].status = "Classified"
    /\ tickets[1].flagged_for_manual_review
    /\ assignments = <<>>
    /\ \A t \in TechIds : technicians[t].current_workload = 0

\* C21: in src/helpdesk-professional/app_demo_pro.py, when the notification
\* insert or the real-time push fails during an automatic or manual
\* assignment, the assignment, the ticket's status Assigned and the workload
\* increment are stored all the same and the caller gets the success answer.
C21_NotificationFailureIsSwallowed ==
    [][resp'.op \in {"submit", "assign"} =>
        \A f \in NotifyFailures :
            (\/ \E r \in ClockSubmitRequests :
                    SubmitTicketNotifyFailsHP(r.caller, r.text[1], r.text[2],
                                              r.outcome, f)
             \/ \E r \in AssignRequests :
                    ManualAssignTicketNotifyFailsHP(r.caller, r.tid, r.tech,
                                                    r.reason, f))
                => /\ resp'.code \in {200, 201}
                   /\ Len(assignments') = Len(assignments) + 1
                   /\ LET a == assignments'[Len(assignments')]
                      IN  /\ a.is_active
                          /\ tickets'[a.ticket_id].status = "Assigned"
                          /\ technicians' =
                                IncrementWorkload(technicians, a.technician_id)]_vars

\* C21 witness: the submitted ticket is Assigned with its assignment and the
\* technician's workload counted, the answer was 201, and no notification
\* row exists because its insert failed.
C21_Witness ==
    /\ variant = "hp"
    /\ resp = Response("submit", 201)
    /\ Len(tickets) = 1
    /\ tickets[1].status = "Assigned"
    /\ Len(assignments) = 1
    /\ technicians[assignments[1].technician_id].current_workload = 1
    /\ notifications = <<>>


\* The assignments request i has committed (row indexes).
CommittedBy(i) ==
    {k \in DOMAIN assignments :
        /\ assignments[k].ticket_id = inflight[i].tid
        /\ assignments[k].technician_id = inflight[i].tech}

\* C22: when submit_ticket requests run at the same time and select the same
\* least-loaded technician, then in every interleaving of their reads and
\* writes each committed request has exactly one assignment stored, and the
\* technician's current_workload is its initial value (0) plus the number of
\* requests that committed an assignment to that technician: plus 2 for two
\* requests, no increment lost and none applied twice.
C22_ConcurrentIncrementsAllCount ==
    /\ \A i \in DOMAIN inflight :
          inflight[i].pc \in {"committed", "done"} /\ inflight[i].tech # NULL
              => Cardinality(CommittedBy(i)) = 1
    /\ \A t \in TechIds :
          technicians[t].current_workload =
              Cardinality({i \in DOMAIN inflight :
                              /\ inflight[i].pc \in {"committed", "done"}
                              /\ inflight[i].tech = t})

\* Two requests read workload 0 for the same technician before either one
\* committed, and both have finished: the technician's workload is 2.
C22_Witness ==
    \E i, j \in DOMAIN inflight :
        /\ i # j
        /\ inflight[i].pc = "done" /\ inflight[j].pc = "done"
        /\ inflight[i].tech # NULL
        /\ inflight[i].tech = inflight[j].tech
        /\ inflight[i].read = 0 /\ inflight[j].read = 0
        /\ technicians[inflight[i].tech].current_workload = 2
        /\ Len(assignments) = 2

\* C29: under concurrent submit_ticket requests, every automatic assignment
\* is committed to a technician whose current_workload is minimal among the
\* candidates of the ticket's category at the moment of the commit.
C29_CommitsToLeastLoaded ==
    [][\A i \in RequestIds :
          CommitAssignment(i)
              => inflight[i].tech \in
                    LeastLoaded(technicians,
                                Candidates(technicians, inflight[i].outcome.category))]_vars

\* C30: no submission with a non-empty subject and description is lost to a
\* ticket-number collision: no request in flight is answered 500 by the
\* UNIQUE(ticket_number) constraint, whether the numbers come from the clock
\* or from the ticket count.
C30_NoSubmissionLost ==
    \A i \in DOMAIN inflight : inflight[i].pc # "failed"

\* The statuses of the ticket lifecycle.
LifecycleStatuses ==
    {"Submitted", "Classified", "Assigned", "In Progress", "Resolved", "Closed"}

\* C23: an update-status request whose status is missing or is not a
\* lifecycle status is rejected with a client error (4xx) and changes no
\* ticket, no assignment and no technician, in the handler of src/app_demo.py
\* as in the others.
C23_InvalidStatusIsRejected ==
    [][resp'.op = "update" =>
        \A r \in DemoUpdateRequests :
            (/\ UpdateTicketStatusDemo(r.caller, r.tid, r.input[1], r.input[2])
             /\ r.input[1] \notin LifecycleStatuses)
                => /\ resp'.code \in 400..499
                   /\ tickets' = tickets
                   /\ assignments' = assignments
                   /\ technicians' = technicians]_vars

\* C24: manual_assign_ticket creates an assignment only for a technician that
\* exists and is active: a request naming another technician is rejected and
\* leaves the assignments, the tickets and the technicians unchanged, in
\* every manual-assign handler.
C24_AssignsOnlyActiveTechnician ==
    [][resp'.op = "assign" =>
        \A r \in ClockAssignRequests :
            (/\ \/ ManualAssignTicketHP(r.caller, r.tid, r.tech, r.reason)
                \/ ManualAssignTicketPro1(r.caller, r.tid, r.tech, r.reason)
                \/ ManualAssignTicketPro2(r.caller, r.tid, r.tech, r.reason)
             /\ ~(r.tech \in TechIds /\ technicians[r.tech].is_active))
                => /\ resp'.code >= 400
                   /\ assignments' = assignments
                   /\ tickets' = tickets
                   /\ technicians' = technicians]_vars

C25_FailureIsLogged ==
    [][resp'.code = 500 =>
        \E e \in system_logs' : e.status \in {"failure", "error"}]_vars

\* The statuses of a ticket that has been given to a technician.
AssignedStatuses == {"Assigned", "In Progress", "Resolved", "Closed"}

\* C27: in src/helpdesk-professional/app_demo_pro.py, after every request a
\* ticket has an active assignment if and only if its status is Assigned,
\* In Progress, Resolved or Closed (a Classified or Submitted ticket has
\* none), and no request moves a ticket from one of those statuses back to
\* Classified or Submitted.
C27_AssignedIffActiveAssignment ==
    [][variant = "hp" =>
        /\ \A tid \in DOMAIN tickets' :
              ({i \in DOMAIN assignments' :
                    /\ assignments'[i].ticket_id = tid
                    /\ assignments'[i].is_active} # {})
                  <=> tickets'[tid].status \in AssignedStatuses
        /\ \A tid \in DOMAIN tickets :
              tickets[tid].status \in AssignedStatuses
                  => tickets'[tid].status \in AssignedStatuses]_vars

\* A ticket was submitted without a candidate (Classified, no assignment),
\* then assigned by the admin, resolved by its technician and closed: it is
\* Closed and holds an active assignment.
C27_Witness ==
    /\ variant = "hp"
    /\ resp = Response("close", 200)
    /\ TicketExists(1)
    /\ tickets[1].status = "Closed"
    /\ tickets[1].manual_assignment_reason # ""
    /\ ActiveOf(1) # {}

\* C28: no technician's current_workload exceeds that technician's
\* max_workload: neither automatic nor manual assignment gives a ticket to a
\* technician who is at capacity.
C28_WorkloadWithinCapacity ==
    \A t \in TechIds : technicians[t].current_workload <= technicians[t].max_workload

=============================================================================
